---- MODULE Spec2Model ----
(***************************************************************************)
(* Resource lifecycle, algorithm selection and workspace sizing of         *)
(* CuDNNConvolutionLayer (src/caffe/layers/cudnn_conv_layer.cpp).          *)
(*                                                                         *)
(* The file has three build variants, selected by the preprocessor:        *)
(*   "frontend" : CUDNN_VERSION_MIN(8,0,0) && USE_CUDNN_FRONTEND           *)
(*   "cudnn8"   : CUDNN_VERSION_MIN(8,0,0), no frontend                    *)
(*   "legacy"   : cuDNN < 8                                                *)
(* The CUDA runtime and cuDNN are modelled by the set of live resources    *)
(* they have handed out (rt).  Device pointers are integers, 0 is NULL.    *)
(* Sizes are in abstract units.                                            *)
(***************************************************************************)
EXTENDS Integers, Sequences, FiniteSets

\* ------------------------------------------------------------ bounds
MaxGroup == 2
MaxBottom == 2
MaxMem == 2
MaxShape == 2
NumAddrs == 2
MaxReshape == 2

\* ------------------------------------------------ program constants
CUDNN_STREAMS_PER_GROUP == 1
NULL == 0
CUDNN_STATUS_SUCCESS == 0
CUDNN_STATUS_NOT_SUPPORTED == 9
CUDNN_CONVOLUTION_FWD_ALGO_IMPLICIT_GEMM == 0
CUDNN_CONVOLUTION_FWD_ALGO_IMPLICIT_PRECOMP_GEMM == 1
CUDNN_CONVOLUTION_FWD_ALGO_GEMM == 2
CUDNN_CONVOLUTION_FWD_ALGO_WINOGRAD_NONFUSED == 7
CUDNN_CONVOLUTION_BWD_FILTER_ALGO_0 == 0
CUDNN_CONVOLUTION_BWD_FILTER_ALGO_1 == 1
CUDNN_CONVOLUTION_BWD_DATA_ALGO_0 == 0
CUDNN_CONVOLUTION_BWD_DATA_ALGO_1 == 1
CUDNN_CONVOLUTION_BWD_DATA_ALGO_WINOGRAD == 4
CUDNN_CONVOLUTION_BWD_DATA_ALGO_WINOGRAD_NONFUSED == 5

VARIABLES
  variant, group_, nbottom, bias_term_,
  phase, handles_setup_,
  stream_, handle_, rt,
  bottom_descs_, top_descs_, conv_descs_, filter_desc_, bias_desc_,
  workspaceSizeInBytes, workspaceData, workspace, workspace_size_,
  fwd_algo_, bwd_filter_algo_, bwd_data_algo_,
  workspace_fwd_sizes_, workspace_bwd_filter_sizes_, workspace_bwd_data_sizes_,
  second_run_, plan_cache_,
  last, reshapes

cfgv == <<variant, group_, nbottom, bias_term_>>
resv == <<stream_, handle_>>
descv == <<bottom_descs_, top_descs_, conv_descs_, filter_desc_, bias_desc_>>
wsv == <<workspaceSizeInBytes, workspaceData, workspace>>
algov == <<fwd_algo_, bwd_filter_algo_, bwd_data_algo_,
           workspace_fwd_sizes_, workspace_bwd_filter_sizes_,
           workspace_bwd_data_sizes_>>
fev == <<second_run_, plan_cache_, workspace_size_>>
vars == <<cfgv, phase, handles_setup_, resv, rt, descv, wsv, algov, fev,
          last, reshapes>>

Variants == {"frontend", "cudnn8", "legacy"}

\* ------------------------------------------------------------ helpers
Max(a, b) == IF a >= b THEN a ELSE b

\* this->group_ * CUDNN_STREAMS_PER_GROUP
NStreams == group_ * CUDNN_STREAMS_PER_GROUP
Groups == 0 .. (NStreams - 1)
Bottoms == 0 .. (nbottom - 1)

\* Device addresses cudaMalloc can hand out; far enough apart that two
\* allocations of the largest size the layer asks for never overlap.
AddrStride == (MaxGroup + 1) * (2 * MaxMem + 2) + 1
DevAddrs == {k * AddrStride : k \in 1 .. NumAddrs}

\* free_memory values cudaMemGetInfo can report: too little for any
\* candidate that needs memory, and enough for every candidate.
FreeMems == {1, MaxMem + 1}

NoLast == [op |-> "none", free_memory |-> 0, fwd_perf |-> <<>>,
           bwd_perf |-> <<>>, malloc |-> "none",
           built |-> 0, lookups |-> 0, added |-> 0, mallocs |-> 0]

Init ==
  /\ variant \in Variants
  /\ group_ \in 1 .. MaxGroup
  /\ nbottom \in 1 .. MaxBottom
  /\ bias_term_ \in BOOLEAN
  /\ phase = "constructed"
  /\ handles_setup_ = FALSE
  /\ stream_ = <<>>
  /\ handle_ = <<>>
  /\ rt = [streams |-> {}, handles |-> {}, bound |-> <<>>, descs |-> {},
           allocs |-> {}, badRelease |-> FALSE]
  /\ bottom_descs_ = <<>>
  /\ top_descs_ = <<>>
  /\ conv_descs_ = <<>>
  /\ filter_desc_ = NULL
  /\ bias_desc_ = NULL
  /\ workspaceSizeInBytes = 0
  /\ workspaceData = NULL
  /\ workspace = <<>>
  /\ workspace_size_ = 0
  /\ fwd_algo_ = <<>>
  /\ bwd_filter_algo_ = <<>>
  /\ bwd_data_algo_ = <<>>
  /\ workspace_fwd_sizes_ = <<>>
  /\ workspace_bwd_filter_sizes_ = <<>>
  /\ workspace_bwd_data_sizes_ = <<>>
  /\ second_run_ = FALSE       \* the flag reads "not yet in the second run"
  /\ plan_cache_ = {}
  /\ last = NoLast
  /\ reshapes = 0

\* ---------------------------------------------------------- LayerSetUp
\* cudaStreamCreate / cudnnCreate hand out fresh opaque ids; the g-th
\* creation of a layer gets id g + 1.
NewStream(g) == g + 1
NewHandle(g) == g + 1

\* Mutant of BindStreams: every handle is bound to stream_[0].
BindStreamsFirst(hs, ss) == [h \in {hs[g] : g \in DOMAIN hs} |-> ss[0]]

\* cudnnSetStream(handle_[g], stream_[g]) for every g of the loop.
BindStreams(hs, ss) == [h \in {hs[g] : g \in DOMAIN hs} |->
                          ss[CHOOSE g \in DOMAIN hs : hs[g] = h]]

Desc(kind, i) == [kind |-> kind, i |-> i]

\* The descriptors LayerSetUp creates in the non-frontend variants.
SetUpDescs ==
  {Desc("filter", 0)}
  \cup {Desc(k, i) : k \in {"bottom", "top", "conv"}, i \in Bottoms}
  \cup (IF bias_term_ THEN {Desc("bias", 0)} ELSE {})

LayerSetUp ==
  /\ phase = "constructed"
  /\ phase' = "setup"
  /\ stream_' = [g \in Groups |-> NewStream(g)]
  /\ handle_' = [g \in Groups |-> NewHandle(g)]
  /\ workspaceSizeInBytes' = 0
  /\ workspaceData' = NULL
  /\ workspace' = [g \in Groups |-> NULL]
  /\ IF variant = "frontend"
       THEN /\ workspace_size_' = 0
            /\ rt' = [rt EXCEPT !.streams = {stream_'[g] : g \in Groups},
                                !.handles = {handle_'[g] : g \in Groups},
                                !.bound = BindStreams(handle_', stream_')]
            /\ UNCHANGED <<descv, algov>>
       ELSE /\ fwd_algo_' = [i \in Bottoms |-> 0]
            /\ bwd_filter_algo_' = [i \in Bottoms |-> 0]
            /\ bwd_data_algo_' = [i \in Bottoms |-> 0]
            /\ workspace_fwd_sizes_' = [i \in Bottoms |-> 0]
            /\ workspace_bwd_data_sizes_' = [i \in Bottoms |-> 0]
            /\ workspace_bwd_filter_sizes_' = [i \in Bottoms |-> 0]
            /\ filter_desc_' = Desc("filter", 0)
            /\ bottom_descs_' = [i \in Bottoms |-> Desc("bottom", i)]
            /\ top_descs_' = [i \in Bottoms |-> Desc("top", i)]
            /\ conv_descs_' = [i \in Bottoms |-> Desc("conv", i)]
            /\ bias_desc_' = IF bias_term_ THEN Desc("bias", 0) ELSE NULL
            /\ rt' = [rt EXCEPT !.streams = {stream_'[g] : g \in Groups},
                                !.handles = {handle_'[g] : g \in Groups},
                                !.bound = BindStreams(handle_', stream_'),
                                !.descs = SetUpDescs]
            /\ UNCHANGED workspace_size_
  /\ handles_setup_' = TRUE
  /\ last' = [NoLast EXCEPT !.op = "LayerSetUp"]
  /\ UNCHANGED <<cfgv, second_run_, plan_cache_, reshapes>>

\* ------------------------------------------- Reshape, non-frontend
Perf(s, a, m) == [status |-> s, algo |-> a, memory |-> m]

\* Result lists of cudnnGetConvolutionForwardAlgorithm_v7 (RetCnt = Len).
\* They cover: nothing returned, the first entry usable, an entry rejected
\* for its status, for its algorithm, for its memory, and all rejected.
FwdPerfLists ==
  { <<>>,
    << Perf(CUDNN_STATUS_SUCCESS,
            CUDNN_CONVOLUTION_FWD_ALGO_IMPLICIT_PRECOMP_GEMM, 1) >>,
    << Perf(CUDNN_STATUS_NOT_SUPPORTED, CUDNN_CONVOLUTION_FWD_ALGO_GEMM, 1),
       Perf(CUDNN_STATUS_SUCCESS,
            CUDNN_CONVOLUTION_FWD_ALGO_IMPLICIT_PRECOMP_GEMM, 1) >>,
    << Perf(CUDNN_STATUS_SUCCESS,
            CUDNN_CONVOLUTION_FWD_ALGO_WINOGRAD_NONFUSED, 0),
       Perf(CUDNN_STATUS_SUCCESS, CUDNN_CONVOLUTION_FWD_ALGO_GEMM, MaxMem) >>,
    << Perf(CUDNN_STATUS_SUCCESS, CUDNN_CONVOLUTION_FWD_ALGO_GEMM, 1),
       Perf(CUDNN_STATUS_SUCCESS,
            CUDNN_CONVOLUTION_FWD_ALGO_IMPLICIT_GEMM, 0) >>,
    << Perf(CUDNN_STATUS_SUCCESS,
            CUDNN_CONVOLUTION_FWD_ALGO_WINOGRAD_NONFUSED, 1),
       Perf(CUDNN_STATUS_NOT_SUPPORTED,
            CUDNN_CONVOLUTION_FWD_ALGO_IMPLICIT_PRECOMP_GEMM, 0) >> }

\* Result lists of cudnnGetConvolutionBackwardDataAlgorithm_v7.
BwdDataPerfLists ==
  { <<>>,
    << Perf(CUDNN_STATUS_SUCCESS, CUDNN_CONVOLUTION_BWD_DATA_ALGO_1, 1) >>,
    << Perf(CUDNN_STATUS_SUCCESS, CUDNN_CONVOLUTION_BWD_DATA_ALGO_WINOGRAD, 0),
       Perf(CUDNN_STATUS_SUCCESS, CUDNN_CONVOLUTION_BWD_DATA_ALGO_1, MaxMem) >>,
    << Perf(CUDNN_STATUS_SUCCESS,
            CUDNN_CONVOLUTION_BWD_DATA_ALGO_WINOGRAD_NONFUSED, 0),
       Perf(CUDNN_STATUS_NOT_SUPPORTED,
            CUDNN_CONVOLUTION_BWD_DATA_ALGO_0, 0) >> }

\* Mutant of FwdPasses: a candidate needing all the free memory passes.
FwdPassesAtLimit(c, free_memory) ==
  /\ c.status = CUDNN_STATUS_SUCCESS
  /\ c.algo # CUDNN_CONVOLUTION_FWD_ALGO_WINOGRAD_NONFUSED
  /\ c.memory <= free_memory

\* The condition of the forward search loop.
FwdPasses(c, free_memory) ==
  /\ c.status = CUDNN_STATUS_SUCCESS
  /\ c.algo # CUDNN_CONVOLUTION_FWD_ALGO_WINOGRAD_NONFUSED
  /\ c.memory < free_memory

\* The condition of the backward-data search loop.
BwdDataPasses(c, free_memory) ==
  /\ c.status = CUDNN_STATUS_SUCCESS
  /\ c.algo # CUDNN_CONVOLUTION_BWD_DATA_ALGO_WINOGRAD
  /\ c.algo # CUDNN_CONVOLUTION_BWD_DATA_ALGO_WINOGRAD_NONFUSED
  /\ c.memory < free_memory

\* for (n = 0; n < RetCnt; n++) if (...) { ...; break; }
\* The index at which the loop breaks, -1 when it runs to the end.
RECURSIVE FwdSearch(_, _, _)
FwdSearch(perf, n, free_memory) ==
  IF n >= Len(perf) THEN -1
  ELSE IF FwdPasses(perf[n + 1], free_memory) THEN n
  ELSE FwdSearch(perf, n + 1, free_memory)

RECURSIVE BwdDataSearch(_, _, _)
BwdDataSearch(perf, n, free_memory) ==
  IF n >= Len(perf) THEN -1
  ELSE IF BwdDataPasses(perf[n + 1], free_memory) THEN n
  ELSE BwdDataSearch(perf, n + 1, free_memory)

\* The algorithm and size arrays as they stand.
CurSel ==
  [fa |-> fwd_algo_, fs |-> workspace_fwd_sizes_,
   bfa |-> bwd_filter_algo_, bfs |-> workspace_bwd_filter_sizes_,
   bda |-> bwd_data_algo_, bds |-> workspace_bwd_data_sizes_]

\* The per-bottom loop of the cuDNN >= 8 variant.  Every bottom's
\* descriptors are set from the same layer-wide shape, so every bottom's
\* query gets the same result list.  An array entry is written only when
\* the search found a candidate.
SelectCudnn8(fwd_perf, bwd_perf, free_memory) ==
  LET nf == FwdSearch(fwd_perf, 0, free_memory)
      nb == BwdDataSearch(bwd_perf, 0, free_memory)
  IN [fa |-> [i \in Bottoms |->
                IF nf >= 0 THEN fwd_perf[nf + 1].algo ELSE fwd_algo_[i]],
      fs |-> [i \in Bottoms |->
                IF nf >= 0 THEN fwd_perf[nf + 1].memory
                           ELSE workspace_fwd_sizes_[i]],
      bfa |-> [i \in Bottoms |->
                IF nf >= 0 THEN CUDNN_CONVOLUTION_BWD_FILTER_ALGO_1
                           ELSE bwd_filter_algo_[i]],
      bfs |-> [i \in Bottoms |->
                IF nf >= 0 THEN 2 * fwd_perf[nf + 1].memory
                           ELSE workspace_bwd_filter_sizes_[i]],
      bda |-> [i \in Bottoms |->
                IF nb >= 0 THEN bwd_perf[nb + 1].algo ELSE bwd_data_algo_[i]],
      bds |-> [i \in Bottoms |->
                IF nb >= 0 THEN bwd_perf[nb + 1].memory
                           ELSE workspace_bwd_data_sizes_[i]]]

\* What the cuDNN < 8 queries can answer for one operation: an algorithm
\* and the workspace size it needs.
LegacyAnswers == {[algo |-> 0, memory |-> 0]}
                 \cup {[algo |-> 1, memory |-> m] : m \in 1 .. MaxMem}

\* The per-bottom loop of the cuDNN < 8 variant: every entry is overwritten.
SelectLegacy(f, bf, bd) ==
  [fa |-> [i \in Bottoms |-> f.algo], fs |-> [i \in Bottoms |-> f.memory],
   bfa |-> [i \in Bottoms |-> bf.algo], bfs |-> [i \in Bottoms |-> bf.memory],
   bda |-> [i \in Bottoms |-> bd.algo], bds |-> [i \in Bottoms |-> bd.memory]]

\* for (i = 0; i < bottom.size(); i++) total = std::max(total, sizes[i]);
RECURSIVE ReduceMax(_, _, _)
ReduceMax(sizes, i, total) ==
  IF i >= nbottom THEN total
  ELSE ReduceMax(sizes, i + 1, Max(total, sizes[i]))

\* max_workspace: the max over all operations.
MaxWorkspace(fs, bds, bfs) ==
  Max(Max(ReduceMax(fs, 0, 0), ReduceMax(bds, 0, 0)), ReduceMax(bfs, 0, 0))

\* Mutant of TotalMaxWorkspace: the number of groups is left out.
TotalMaxWorkspaceOneGroup(max_workspace, n) == max_workspace

\* total_max_workspace
TotalMaxWorkspace(max_workspace, n) == max_workspace * n

\* Mutant of NeedsRealloc: reallocate whenever the need differs.
NeedsReallocOnChange(total_max_workspace, cur) == total_max_workspace # cur

\* if (total_max_workspace > workspaceSizeInBytes)
NeedsRealloc(total_max_workspace, cur) == total_max_workspace > cur

\* Mutant of WorkspaceAlias: the regions are one byte apart.
WorkspaceAliasByteStride(data, g, max_workspace) == data + g

\* reinterpret_cast<char *>(workspaceData) + g*max_workspace
WorkspaceAlias(data, g, max_workspace) == data + g * max_workspace

\* cudaFree(p): a no-op on NULL.
CudaFree(r, p) ==
  IF p = NULL THEN r
  ELSE IF p \in r.allocs THEN [r EXCEPT !.allocs = @ \ {p}]
  ELSE [r EXCEPT !.badRelease = TRUE]

\* The zero-memory path taken when cudaMalloc fails.
ZeroSel ==
  [fa |-> [i \in Bottoms |-> CUDNN_CONVOLUTION_FWD_ALGO_IMPLICIT_GEMM],
   fs |-> [i \in Bottoms |-> 0],
   bfa |-> [i \in Bottoms |-> CUDNN_CONVOLUTION_BWD_FILTER_ALGO_0],
   bfs |-> [i \in Bottoms |-> 0],
   bda |-> [i \in Bottoms |-> CUDNN_CONVOLUTION_BWD_DATA_ALGO_0],
   bds |-> [i \in Bottoms |-> 0]]

SetSel(sel) ==
  /\ fwd_algo_' = sel.fa
  /\ workspace_fwd_sizes_' = sel.fs
  /\ bwd_filter_algo_' = sel.bfa
  /\ workspace_bwd_filter_sizes_' = sel.bfs
  /\ bwd_data_algo_' = sel.bda
  /\ workspace_bwd_data_sizes_' = sel.bds

\* The reduce and (re)allocation that ends Reshape.  hist is the record of
\* the call's inputs.  The alias loop runs after a failed cudaMalloc too:
\* it then adds g*max_workspace to a null pointer, which for g > 0 is
\* undefined; the outcomes are the flat-address sum and NULL.
ReallocWorkspace(sel, hist) ==
  LET max_workspace == MaxWorkspace(sel.fs, sel.bds, sel.bfs)
      total_max_workspace == TotalMaxWorkspace(max_workspace, NStreams)
      freed == CudaFree(rt, workspaceData)
  IN IF NeedsRealloc(total_max_workspace, workspaceSizeInBytes)
       THEN \/ \E addr \in DevAddrs \ freed.allocs :
                 /\ rt' = [freed EXCEPT !.allocs = @ \cup {addr}]
                 /\ workspaceSizeInBytes' = total_max_workspace
                 /\ workspaceData' = addr
                 /\ workspace' = [g \in Groups |->
                                    WorkspaceAlias(addr, g, max_workspace)]
                 /\ SetSel(sel)
                 /\ last' = [hist EXCEPT !.malloc = "ok"]
            \/ \E flat \in BOOLEAN :
                 /\ rt' = freed
                 /\ SetSel(ZeroSel)
                 /\ workspaceData' = NULL
                 /\ workspaceSizeInBytes' = 0
                 /\ workspace' = [g \in Groups |->
                       IF flat \/ g * max_workspace = 0
                         THEN WorkspaceAlias(NULL, g, max_workspace)
                         ELSE NULL]
                 /\ last' = [hist EXCEPT !.malloc = "failed"]
       ELSE /\ SetSel(sel)
            /\ last' = hist
            /\ UNCHANGED <<rt, wsv>>

ReshapeCudnn8 ==
  /\ phase = "setup"
  /\ variant = "cudnn8"
  /\ reshapes < MaxReshape
  /\ \E free_memory \in FreeMems, fwd_perf \in FwdPerfLists,
        bwd_perf \in BwdDataPerfLists :
       ReallocWorkspace(SelectCudnn8(fwd_perf, bwd_perf, free_memory),
                        [NoLast EXCEPT !.op = "Reshape",
                                       !.free_memory = free_memory,
                                       !.fwd_perf = fwd_perf,
                                       !.bwd_perf = bwd_perf])
  /\ reshapes' = reshapes + 1
  /\ UNCHANGED <<cfgv, phase, handles_setup_, resv, descv, fev>>

ReshapeLegacy ==
  /\ phase = "setup"
  /\ variant = "legacy"
  /\ reshapes < MaxReshape
  /\ \E f \in LegacyAnswers, bf \in LegacyAnswers, bd \in LegacyAnswers :
       ReallocWorkspace(SelectLegacy(f, bf, bd),
                        [NoLast EXCEPT !.op = "Reshape"])
  /\ reshapes' = reshapes + 1
  /\ UNCHANGED <<cfgv, phase, handles_setup_, resv, descv, fev>>

\* ----------------------------------------------- Reshape, frontend
\* The operation graphs Reshape can build: the graph is determined by the
\* layer's dimensions, which are those of bottom[0] for every i.
Shapes == 1 .. MaxShape

\* cudaMalloc(&p, size): size 0 succeeds with p = NULL; otherwise addr is
\* the address handed out, NULL when the allocation failed.
\* checkCudaErr stops the process on a failed call.
FrontendMalloc(st, size, addr) ==
  IF size = 0 THEN [st EXCEPT !.data = NULL, !.mallocs = @ + 1]
  ELSE IF addr = NULL THEN [st EXCEPT !.aborted = TRUE]
  ELSE [st EXCEPT !.data = addr, !.allocs = @ \cup {addr}, !.mallocs = @ + 1]

\* if (!second_run_) { second_run_ = true; continue; }
SkipIteration(st) == ~st.second_run

\* One iteration of the loop over the bottoms.
FrontendIteration(st, key, plan_size, addr) ==
  IF SkipIteration(st) THEN [st EXCEPT !.second_run = TRUE]
  ELSE LET g == [st EXCEPT !.built = @ + 1, !.lookups = @ + 1]
       IN IF key \in g.cache THEN g
          ELSE FrontendMalloc([g EXCEPT !.cache = @ \cup {key},
                                        !.added = @ + 1,
                                        !.wsize = plan_size],
                              plan_size, addr)

\* for (int i = 0; i < bottom.size(); i++) { ... }
RECURSIVE FrontendLoop(_, _, _, _, _)
FrontendLoop(st, i, key, plan_size, addr) ==
  IF i >= nbottom \/ st.aborted THEN st
  ELSE FrontendLoop(FrontendIteration(st, key, plan_size, addr),
                    i + 1, key, plan_size, addr)

ReshapeFrontend ==
  /\ phase = "setup"
  /\ variant = "frontend"
  /\ reshapes < MaxReshape + 1
  /\ \E key \in Shapes, plan_size \in 0 .. MaxMem,
        addr \in (DevAddrs \ rt.allocs) \cup {NULL} :
       LET st == FrontendLoop(
                   [second_run |-> second_run_, cache |-> plan_cache_,
                    wsize |-> workspace_size_, data |-> workspaceData,
                    allocs |-> rt.allocs, aborted |-> FALSE,
                    built |-> 0, lookups |-> 0, added |-> 0, mallocs |-> 0],
                   0, key, plan_size, addr)
       IN /\ second_run_' = st.second_run
          /\ plan_cache_' = st.cache
          /\ workspace_size_' = st.wsize
          /\ workspaceData' = st.data
          /\ rt' = [rt EXCEPT !.allocs = st.allocs]
          /\ phase' = IF st.aborted THEN "aborted" ELSE phase
          /\ last' = [NoLast EXCEPT !.op = "Reshape",
                                    !.built = st.built,
                                    !.lookups = st.lookups,
                                    !.added = st.added,
                                    !.mallocs = st.mallocs]
  /\ reshapes' = reshapes + 1
  /\ UNCHANGED <<cfgv, handles_setup_, resv, descv, workspaceSizeInBytes,
                 workspace, algov>>

\* ---------------------------------------------------------- destructor
\* for (g = 0; g < group_ * CUDNN_STREAMS_PER_GROUP; g++) {
\*   cudaStreamDestroy(stream_[g]); cudnnDestroy(handle_[g]); }
RECURSIVE DestroyHandles(_, _)
DestroyHandles(r, g) ==
  IF g >= NStreams THEN r
  ELSE DestroyHandles(
         [r EXCEPT !.streams = @ \ {stream_[g]},
                   !.handles = @ \ {handle_[g]},
                   !.badRelease = @ \/ stream_[g] \notin r.streams
                                    \/ handle_[g] \notin r.handles],
         g + 1)

\* for (i = 0; i < bottom_descs_.size(); i++) { destroy bottom, top, conv }
\* if (bias_term_) destroy bias_desc_;  destroy filter_desc_
DestroyedDescs ==
  {bottom_descs_[i] : i \in DOMAIN bottom_descs_}
  \cup {top_descs_[i] : i \in DOMAIN bottom_descs_}
  \cup {conv_descs_[i] : i \in DOMAIN bottom_descs_}
  \cup (IF bias_term_ THEN {bias_desc_} ELSE {})
  \cup {filter_desc_}

DestroyDescs(r) ==
  [r EXCEPT !.descs = @ \ DestroyedDescs,
            !.badRelease = @ \/ ~(DestroyedDescs \subseteq r.descs)]

\* if (workspace_size_ > 0) { checkCudaErr(cudaFree(workspaceData)); }
FrontendFree(r) ==
  IF workspace_size_ > 0 THEN CudaFree(r, workspaceData) ELSE r

Destructor ==
  /\ phase \in {"constructed", "setup"}
  /\ phase' = "destroyed"
  /\ rt' = IF ~handles_setup_ THEN rt
           ELSE IF variant = "frontend"
             THEN FrontendFree(DestroyHandles(rt, 0))
             ELSE CudaFree(DestroyHandles(DestroyDescs(rt), 0), workspaceData)
  /\ last' = [NoLast EXCEPT !.op = "Destructor"]
  /\ UNCHANGED <<cfgv, handles_setup_, resv, descv, wsv, algov, fev, reshapes>>

Next ==
  \/ LayerSetUp
  \/ ReshapeCudnn8
  \/ ReshapeLegacy
  \/ ReshapeFrontend
  \/ Destructor

Spec == Init /\ [][Next]_vars

\* ================================================================ claims
\* The largest entry of the three per-bottom size arrays as they stand.
SizeEntries ==
  {workspace_fwd_sizes_[i] : i \in DOMAIN workspace_fwd_sizes_}
  \cup {workspace_bwd_data_sizes_[i] : i \in DOMAIN workspace_bwd_data_sizes_}
  \cup {workspace_bwd_filter_sizes_[i] :
          i \in DOMAIN workspace_bwd_filter_sizes_}
  \cup {0}
CurM == CHOOSE m \in SizeEntries : \A x \in SizeEntries : m >= x
NGroupStreams == group_ * CUDNN_STREAMS_PER_GROUP
GroupIdx == 0 .. (NGroupStreams - 1)
NoneLive ==
  /\ rt.streams = {}
  /\ rt.handles = {}
  /\ rt.descs = {}
  /\ rt.allocs = {}

\* C1: after LayerSetUp and any sequence of Reshape calls, in either build
\* variant, the destructor leaves no stream, handle, descriptor or device
\* allocation of the layer live and releases none of them twice.
C1_TeardownReleasesAll ==
  (phase = "destroyed" /\ handles_setup_) => (NoneLive /\ ~rt.badRelease)

\* The same teardown property for the two non-frontend variants alone.
TeardownReleasesAllNonFrontend ==
  (phase = "destroyed" /\ handles_setup_ /\ variant # "frontend")
    => (NoneLive /\ ~rt.badRelease)

\* C2: after LayerSetUp exactly group_ * CUDNN_STREAMS_PER_GROUP streams and
\* as many handles exist, handle g is bound to stream g, every workspace[g]
\* is NULL and handles_setup_ is true; until the destructor runs these are
\* the live streams and handles, and the destructor destroys exactly them.
C2_SetUpAllocatesPerGroup ==
  /\ last.op = "LayerSetUp" =>
       /\ handles_setup_
       /\ DOMAIN stream_ = GroupIdx
       /\ DOMAIN handle_ = GroupIdx
       /\ DOMAIN workspace = GroupIdx
       /\ \A g \in GroupIdx : workspace[g] = NULL
  /\ phase = "setup" =>
       /\ Cardinality(rt.streams) = NGroupStreams
       /\ Cardinality(rt.handles) = NGroupStreams
       /\ rt.streams = {stream_[g] : g \in GroupIdx}
       /\ rt.handles = {handle_[g] : g \in GroupIdx}
       /\ \A g \in GroupIdx : rt.bound[handle_[g]] = stream_[g]
  /\ (phase = "destroyed" /\ handles_setup_) =>
       /\ rt.streams = {}
       /\ rt.handles = {}
       /\ ~rt.badRelease

C2_Witness ==
  /\ phase = "destroyed"
  /\ handles_setup_
  /\ group_ >= 2
  /\ reshapes >= 1

\* C3: after every Reshape of a non-frontend variant the shared workspace
\* holds at least (group_ * CUDNN_STREAMS_PER_GROUP) * M bytes, M the largest
\* per-bottom workspace size as it stands when Reshape returns.
C3_WorkspaceLargeEnough ==
  (variant # "frontend" /\ last.op = "Reshape")
    => workspaceSizeInBytes >= NGroupStreams * CurM

C3_Witness ==
  /\ variant = "legacy"
  /\ last.op = "Reshape"
  /\ last.malloc = "ok"
  /\ group_ >= 2
  /\ CurM >= 2
  /\ reshapes >= 2

\* C4: when the cudaMalloc of the enlarged workspace fails inside Reshape,
\* then when Reshape returns every workspace[g] is NULL, workspaceData is
\* NULL, workspaceSizeInBytes is 0, every per-bottom size is 0 and every
\* per-bottom algorithm is the zero-workspace one.
C4_FailureForcesZeroPath ==
  (last.op = "Reshape" /\ last.malloc = "failed") =>
    /\ \A g \in GroupIdx : workspace[g] = NULL
    /\ workspaceData = NULL
    /\ workspaceSizeInBytes = 0
    /\ \A i \in DOMAIN fwd_algo_ :
         /\ workspace_fwd_sizes_[i] = 0
         /\ workspace_bwd_filter_sizes_[i] = 0
         /\ workspace_bwd_data_sizes_[i] = 0
         /\ fwd_algo_[i] = CUDNN_CONVOLUTION_FWD_ALGO_IMPLICIT_GEMM
         /\ bwd_filter_algo_[i] = CUDNN_CONVOLUTION_BWD_FILTER_ALGO_0
         /\ bwd_data_algo_[i] = CUDNN_CONVOLUTION_BWD_DATA_ALGO_0

\* The claims' own reading of "candidate n passes the filter".
UsableFwd(c, free) ==
  /\ c.status = 0
  /\ c.algo # 7
  /\ c.memory < free
UsableBwdData(c, free) ==
  /\ c.status = 0
  /\ c.algo \notin {4, 5}
  /\ c.memory < free

\* C5: in the cuDNN >= 8 variant, after every Reshape and for every bottom
\* i, if no forward candidate passed the filter then fwd_algo_[i] is the
\* default (0) with workspace_fwd_sizes_[i] = 0, and if no backward-data
\* candidate passed then bwd_data_algo_[i] is 0 with size 0.
C5_DefaultsWhenNoneSuitable ==
  (variant = "cudnn8" /\ last.op = "Reshape") =>
    \A i \in DOMAIN fwd_algo_ :
      /\ (\A n \in 1 .. Len(last.fwd_perf) :
            ~UsableFwd(last.fwd_perf[n], last.free_memory))
           => (fwd_algo_[i] = 0 /\ workspace_fwd_sizes_[i] = 0)
      /\ (\A n \in 1 .. Len(last.bwd_perf) :
            ~UsableBwdData(last.bwd_perf[n], last.free_memory))
           => (bwd_data_algo_[i] = 0 /\ workspace_bwd_data_sizes_[i] = 0)

\* Entry n is the lowest-index usable forward candidate of the last call.
FirstUsableFwd(n) ==
  /\ UsableFwd(last.fwd_perf[n], last.free_memory)
  /\ \A m \in 1 .. (n - 1) : ~UsableFwd(last.fwd_perf[m], last.free_memory)

FwdChoiceStands(i, n) ==
  /\ fwd_algo_[i] = last.fwd_perf[n].algo
  /\ workspace_fwd_sizes_[i] = last.fwd_perf[n].memory
  /\ bwd_filter_algo_[i] = CUDNN_CONVOLUTION_BWD_FILTER_ALGO_1
  /\ workspace_bwd_filter_sizes_[i] = 2 * workspace_fwd_sizes_[i]

\* C6 as stated: in the cuDNN >= 8 variant Reshape leaves, for each bottom
\* i, fwd_algo_[i] and workspace_fwd_sizes_[i] at the lowest-index usable
\* candidate, bwd_filter_algo_[i] at BWD_FILTER_ALGO_1 and
\* workspace_bwd_filter_sizes_[i] at twice the forward size.
C6_FwdChoiceAsStated ==
  (variant = "cudnn8" /\ last.op = "Reshape") =>
    \A i \in DOMAIN fwd_algo_ : \A n \in 1 .. Len(last.fwd_perf) :
      FirstUsableFwd(n) => FwdChoiceStands(i, n)

\* C6 amended: the same, for every Reshape whose workspace cudaMalloc did
\* not fail.
C6_FwdChoice ==
  (variant = "cudnn8" /\ last.op = "Reshape" /\ last.malloc # "failed") =>
    \A i \in DOMAIN fwd_algo_ : \A n \in 1 .. Len(last.fwd_perf) :
      FirstUsableFwd(n) => FwdChoiceStands(i, n)

C6_Witness ==
  /\ variant = "cudnn8"
  /\ last.op = "Reshape"
  /\ last.malloc # "failed"
  /\ nbottom >= 2
  /\ Len(last.fwd_perf) = 2
  /\ FirstUsableFwd(2)
  /\ ~UsableFwd(last.fwd_perf[1], last.free_memory)
  /\ last.fwd_perf[1].status = 0
  /\ last.fwd_perf[1].algo # 7
  /\ fwd_algo_[1] = last.fwd_perf[2].algo

\* C7: a Reshape of a non-frontend variant frees and reallocates only when
\* the needed total exceeds workspaceSizeInBytes; otherwise workspaceData,
\* workspaceSizeInBytes and every workspace[g] stay as they were; and
\* unless the allocation fails workspaceSizeInBytes does not decrease.
C7_ReallocOnlyToGrow ==
  [][ (variant # "frontend" /\ last'.op = "Reshape"
       /\ last'.malloc # "failed") =>
        /\ (NGroupStreams * CurM' <= workspaceSizeInBytes)
             => (UNCHANGED wsv /\ rt'.allocs = rt.allocs)
        /\ (workspaceData' # workspaceData \/ rt'.allocs # rt.allocs
            \/ workspace' # workspace)
             => (NGroupStreams * CurM' > workspaceSizeInBytes)
        /\ workspaceSizeInBytes' >= workspaceSizeInBytes ]_vars

C7_Witness ==
  /\ variant # "frontend"
  /\ last.op = "Reshape"
  /\ last.malloc = "none"
  /\ workspaceData # NULL
  /\ NGroupStreams * CurM < workspaceSizeInBytes

\* C8: in the frontend variant the first Reshape call after construction
\* builds no operation graph, adds no plan to the cache and allocates no
\* device workspace, for any number of bottoms; in every call a plan is
\* added and a workspace allocated only for a lookup that missed.
C8_FirstReshapeSkipped ==
  (variant = "frontend" /\ last.op = "Reshape" /\ phase = "setup") =>
    /\ reshapes = 1 =>
         /\ last.built = 0
         /\ last.lookups = 0
         /\ last.added = 0
         /\ last.mallocs = 0
         /\ plan_cache_ = {}
         /\ rt.allocs = {}
    /\ last.added <= last.lookups
    /\ last.mallocs = last.added

\* C9: in the non-frontend variants, whenever workspaceData is non-NULL
\* after LayerSetUp and any Reshape calls, the ranges
\* [workspace[g], workspace[g] + M) are pairwise disjoint and lie inside
\* [workspaceData, workspaceData + workspaceSizeInBytes).
C9_RegionsDisjoint ==
  (variant # "frontend" /\ phase = "setup" /\ workspaceData # NULL) =>
    /\ \A g \in GroupIdx :
         /\ workspace[g] >= workspaceData
         /\ workspace[g] + CurM <= workspaceData + workspaceSizeInBytes
    /\ \A g, h \in GroupIdx :
         g # h => \/ workspace[g] + CurM <= workspace[h]
                  \/ workspace[h] + CurM <= workspace[g]

C9_Witness ==
  /\ variant = "cudnn8"
  /\ phase = "setup"
  /\ group_ >= 2
  /\ workspaceData # NULL
  /\ last.malloc = "none"
  /\ CurM >= 1
  /\ workspace[1] > workspace[0] + CurM
====
